---------------------------- MODULE Spec2Model ----------------------------
(***************************************************************************)
(* E-Commerce API (src/main.py, src/schemas.py): product listing, lookup   *)
(* and creation over a document store with a hardcoded fallback catalog,   *)
(* acknowledgement-only cart/wishlist endpoints and a cash-on-delivery     *)
(* checkout.                                                               *)
(*                                                                         *)
(* Each HTTP handler is one action.  The state is the store handle, the    *)
(* two store collections the handlers touch, the module-level fallback     *)
(* catalog, and the last request with its response.  A Python str is a     *)
(* tagged sequence of one-character strings, so that lower(), `in`,        *)
(* $regex and ObjectId parsing are computed character by character.        *)
(***************************************************************************)
EXTENDS Integers, Sequences, FiniteSets, TLC

VARIABLES
    db,               \* database.db: TRUE when the handle is set, FALSE when None
    product,          \* documents of the "product" collection, in natural order
    order,            \* documents of the "order" collection
    SAMPLE_PRODUCTS,  \* the module-level fallback list of src/main.py
    req,              \* the last request
    resp,             \* its response
    calls             \* the create_document calls that request made

vars == <<db, product, order, SAMPLE_PRODUCTS, req, resp, calls>>

---------------------------------------------------------------------------
(* Bounds of the model *)

\* at most this many documents are ever inserted into the store
MaxDocs == 2

---------------------------------------------------------------------------
(* Python values *)

\* a str the handlers inspect: its characters
Str(s) == [t |-> "str", v |-> s]
\* a str the handlers only pass on (URLs, spec entries); {u2011} stands for the
\* non-breaking hyphen U+2011
Text(s) == [t |-> "str", v |-> s]
None == [t |-> "none", v |-> <<>>]
\* bson.ObjectId: its 12 bytes, written as 24 lower-case hex digits
Oid(h) == [t |-> "oid", v |-> h]

IsStr(x) == x.t = "str"

\* Python truthiness of an Optional[str]: None and "" are falsy
Truthy(x) == IsStr(x) /\ Len(x.v) > 0

UpperCase ==
    <<"A","B","C","D","E","F","G","H","I","J","K","L","M",
      "N","O","P","Q","R","S","T","U","V","W","X","Y","Z">>
LowerCase ==
    <<"a","b","c","d","e","f","g","h","i","j","k","l","m",
      "n","o","p","q","r","s","t","u","v","w","x","y","z">>
UpperSet == {UpperCase[i] : i \in 1..Len(UpperCase)}
lowerOf == [c \in UpperSet |->
              LowerCase[CHOOSE i \in 1..Len(UpperCase) : UpperCase[i] = c]]

LowerChar(c) == IF c \in UpperSet THEN lowerOf[c] ELSE c

\* str.lower()
lower(s) == [i \in 1..Len(s) |-> LowerChar(s[i])]

\* Python's `sub in s` on str
Contains(sub, s) ==
    \E k \in 0..(Len(s) - Len(sub)) :
        \A j \in 1..Len(sub) : s[k + j] = sub[j]

---------------------------------------------------------------------------
(* The fallback catalog *)

\* src/main.py SAMPLE_PRODUCTS[0]: "sample-1", "Glass Card Pro",
\*   "Minimalist translucent credit card with NFC."
Sample1 ==
    [ id |-> Str(<<"s","a","m","p","l","e","-","1">>),
      title |-> Str(<<"G","l","a","s","s"," ","C","a","r","d"," ","P","r","o">>),
      description |->
        Str(<<"M","i","n","i","m","a","l","i","s","t"," ","t","r","a","n","s","l","u","c","e",
            "n","t"," ","c","r","e","d","i","t"," ","c","a","r","d"," ","w","i","t","h"," ",
            "N","F","C",".">>),
      price |-> 129,
      category |-> Str(<<"F","i","n","t","e","c","h">>),
      in_stock |-> TRUE,
      image |->
        Text("https://images.unsplash.com/"
            \o "photo-1556745753-b2904692b3cd?q=80&w=1200&auto=format&fit=crop"),
      gallery |-> <<
        Text("https://images.unsplash.com/"
            \o "photo-1556745753-b2904692b3cd?q=80&w=1200&auto=format&fit=crop"),
        Text("https://images.unsplash.com/"
            \o "photo-1520975916090-3105956dac38?q=80&w=1200&auto=format&fit=crop")>>,
      specs |-> <<
        <<Text("Material"), Text("Polycarbonate")>>,
        <<Text("NFC"), Text("Yes")>>,
        <<Text("Finish"), Text("Matte glass")>>>> ]

\* src/main.py SAMPLE_PRODUCTS[1]: "sample-2", "Neo Wallet",
\*   "Slim carbon fiber wallet for modern life."
Sample2 ==
    [ id |-> Str(<<"s","a","m","p","l","e","-","2">>),
      title |-> Str(<<"N","e","o"," ","W","a","l","l","e","t">>),
      description |->
        Str(<<"S","l","i","m"," ","c","a","r","b","o","n"," ","f","i","b","e","r"," ","w","a",
            "l","l","e","t"," ","f","o","r"," ","m","o","d","e","r","n"," ","l","i","f","e",
            ".">>),
      price |-> 79,
      category |-> Str(<<"A","c","c","e","s","s","o","r","i","e","s">>),
      in_stock |-> TRUE,
      image |->
        Text("https://images.unsplash.com/"
            \o "photo-1526304640581-d334cdbbf45e?q=80&w=1200&auto=format&fit=crop"),
      gallery |-> <<
        Text("https://images.unsplash.com/"
            \o "photo-1526304640581-d334cdbbf45e?q=80&w=1200&auto=format&fit=crop"),
        Text("https://images.unsplash.com/"
            \o "photo-1610395219791-93e2c8d0e87b?q=80&w=1200&auto=format&fit=crop")>>,
      specs |-> <<
        <<Text("Material"), Text("Carbon fiber")>>,
        <<Text("Capacity"), Text("6 cards")>>,
        <<Text("RFID"), Text("Shielded")>>>> ]

\* src/main.py SAMPLE_PRODUCTS[2]: "sample-3", "Arc Charger",
\*   "MagSafe fast charger with matte finish."
Sample3 ==
    [ id |-> Str(<<"s","a","m","p","l","e","-","3">>),
      title |-> Str(<<"A","r","c"," ","C","h","a","r","g","e","r">>),
      description |->
        Str(<<"M","a","g","S","a","f","e"," ","f","a","s","t"," ","c","h","a","r","g","e","r",
            " ","w","i","t","h"," ","m","a","t","t","e"," ","f","i","n","i","s","h",".">>),
      price |-> 39,
      category |-> Str(<<"G","a","d","g","e","t","s">>),
      in_stock |-> TRUE,
      image |->
        Text("https://images.unsplash.com/"
            \o "photo-1511707171634-5f897ff02aa9?q=80&w=1200&auto=format&fit=crop"),
      gallery |-> <<
        Text("https://images.unsplash.com/"
            \o "photo-1511707171634-5f897ff02aa9?q=80&w=1200&auto=format&fit=crop"),
        Text("https://images.unsplash.com/"
            \o "photo-1587829741301-dc798b83add3?q=80&w=1200&auto=format&fit=crop")>>,
      specs |-> <<
        <<Text("Output"), Text("15W")>>,
        <<Text("Cable"), Text("USB{u2011}C")>>,
        <<Text("Finish"), Text("Soft{u2011}touch")>>>> ]

\* src/main.py SAMPLE_PRODUCTS[3]: "sample-4", "Luma Dock",
\*   "USB{u2011}C hub with anodized aluminum shell."
Sample4 ==
    [ id |-> Str(<<"s","a","m","p","l","e","-","4">>),
      title |-> Str(<<"L","u","m","a"," ","D","o","c","k">>),
      description |->
        Str(<<"U","S","B","u2011","C"," ","h","u","b"," ","w","i","t","h"," ","a","n","o","d",
            "i","z","e","d"," ","a","l","u","m","i","n","u","m"," ","s","h","e","l","l",".">>),
      price |-> 59,
      category |-> Str(<<"G","a","d","g","e","t","s">>),
      in_stock |-> TRUE,
      image |->
        Text("https://images.unsplash.com/"
            \o "photo-1518779578993-ec3579fee39f?q=80&w=1200&auto=format&fit=crop"),
      gallery |-> <<
        Text("https://images.unsplash.com/"
            \o "photo-1518779578993-ec3579fee39f?q=80&w=1200&auto=format&fit=crop"),
        Text("https://images.unsplash.com/"
            \o "photo-1484704849700-f032a568e944?q=80&w=1200&auto=format&fit=crop")>>,
      specs |-> <<
        <<Text("Ports"), Text("HDMI/USB{u2011}A/USB{u2011}C")>>,
        <<Text("Material"), Text("Aluminum")>>,
        <<Text("Color"), Text("Deep purple")>>>> ]
SampleCatalog == <<Sample1, Sample2, Sample3, Sample4>>

NOTE_FALLBACK == "database_unavailable_fallback"

\* FallbackMatch comparing the lower-cased q with the texts as written
FallbackMatch_CaseSensitive(q, s) ==
    LET ql == lower(q.v)
        desc == IF "description" \in DOMAIN s /\ Truthy(s["description"])
                THEN s["description"].v ELSE <<>>
    IN  Contains(ql, s["title"].v) \/ Contains(ql, desc)

\* the `q`-filter of the except branch of list_products
FallbackMatch(q, s) ==
    LET ql == lower(q.v)
        desc == IF "description" \in DOMAIN s /\ Truthy(s["description"])
                THEN s["description"].v ELSE <<>>
    IN  Contains(ql, lower(s["title"].v)) \/ Contains(ql, lower(desc))

FallbackItems(catalog, q) ==
    IF Truthy(q)
    THEN SelectSeq(catalog, LAMBDA s : FallbackMatch(q, s))
    ELSE catalog

---------------------------------------------------------------------------
(* bson.ObjectId *)

HexDigits == <<"0","1","2","3","4","5","6","7","8","9","a","b","c","d","e","f">>
HexSet == {HexDigits[i] : i \in 1..Len(HexDigits)}

\* the leading 23 hex digits of the ids the store assigns; the last digit counts
OidPrefix ==
    <<"6","5","a","1","b","2","c","3","d","4","e","5",
      "f","6","0","7","1","8","2","9","3","a","4">>

\* ObjectId(s) accepts exactly the strings of 24 hex digits, in either case
ObjectIdValid(s) ==
    /\ Len(s) = Len(OidPrefix) + 1
    /\ \A i \in 1..Len(s) : LowerChar(s[i]) \in HexSet

\* ObjectId(s): the bytes the digits spell; upper and lower case spell the same
ObjectId(s) == Oid(lower(s))

\* str(ObjectId): the 24 lower-case hex digits
StrOfOid(o) == Str(o.v)

---------------------------------------------------------------------------
(* The document store adapter (database.py) and the store behind it *)

Inserted == Len(product) + Len(order)

\* the _id the store assigns to the next inserted document
NewObjectId == Oid(Append(OidPrefix, HexDigits[Inserted + 1]))

\* PCRE as the store evaluates $regex, for patterns over literals, "." and "(":
\* a "(" never closed does not compile
RegexValid(pat) == \A i \in 1..Len(pat) : pat[i] # "("

RegexCharMatch(p, c, options) ==
    \/ p = "."
    \/ IF options = "i" THEN LowerChar(p) = LowerChar(c) ELSE p = c

\* an unanchored search of the pattern in the text
RegexSearch(pat, options, text) ==
    \E k \in 0..(Len(text) - Len(pat)) :
        \A j \in 1..Len(pat) : RegexCharMatch(pat[j], text[k + j], options)

\* {field: {"$regex": ..., "$options": ...}}: only a string field can match
ClauseMatch(clause, doc) ==
    /\ clause.field \in DOMAIN doc
    /\ IsStr(doc[clause.field])
    /\ RegexSearch(clause.regex, clause.options, doc[clause.field].v)

\* {} selects every document, {"$or": [...]} those matching some clause
MatchFilter(filt, doc) ==
    \/ filt.kind = "all"
    \/ /\ filt.kind = "or"
       /\ \E i \in 1..Len(filt.clauses) : ClauseMatch(filt.clauses[i], doc)

FilterValid(filt) ==
    \/ filt.kind = "all"
    \/ \A i \in 1..Len(filt.clauses) : RegexValid(filt.clauses[i].regex)

Take(s, n) == IF Len(s) <= n THEN s ELSE SubSeq(s, 1, n)

DropField(doc, f) == [g \in DOMAIN doc \ {f} |-> doc[g]]

\* what a store operation may do: answer, raise, or answer with a malformed
\* document (one without _id)
StoreOutcomes == {"ok", "raises", "malformed"}

\* get_documents(collection, filter, limit): raises without a connection
\* (StoreUnavailable) or when the store rejects or fails the query (QueryError),
\* else returns the first `limit` matching documents in natural order
get_documents(coll, filt, limit, outcome) ==
    IF ~db \/ outcome = "raises" \/ ~FilterValid(filt)
    THEN [raised |-> TRUE, docs |-> <<>>]
    ELSE LET found == Take(SelectSeq(coll, LAMBDA d : MatchFilter(filt, d)), limit)
         IN  [raised |-> FALSE,
              docs |-> [i \in 1..Len(found) |->
                          IF outcome = "malformed" /\ i = Len(found)
                          THEN DropField(found[i], "_id") ELSE found[i]]]

\* create_document(collection, data): raises without a connection
\* (StoreUnavailable) or when the store rejects the write (WriteError: `fail`),
\* else inserts the document under a fresh _id and returns str(_id)
create_document(data, fail) ==
    IF ~db THEN [raised |-> TRUE, detail |-> "StoreUnavailable"]
    ELSE IF fail THEN [raised |-> TRUE, detail |-> "WriteError"]
    ELSE [raised |-> FALSE, id |-> StrOfOid(NewObjectId),
          doc |-> ("_id" :> NewObjectId) @@ data]

\* db["product"].find_one({"_id": oid}): the first such document, if any
find_one(coll, oid) ==
    SelectSeq(coll, LAMBDA d : "_id" \in DOMAIN d /\ d["_id"] = oid)

---------------------------------------------------------------------------
(* Request inputs *)

\* the default of list_products' limit
DefaultLimit == 20

Limits == {1, DefaultLimit}

Queries ==
    { None,
      Str(<<>>),
      Str(<<"w","a","l","l","e","t">>),
      Str(<<"W","A","L","L","E","T">>),
      Str(<<"n","e","o">>),
      Str(<<"u","s","b">>),
      Str(<<".">>),
      Str(<<"(">>) }

FirstId == Append(OidPrefix, HexDigits[1])
FirstIdUpper ==
    [i \in 1..Len(FirstId) |->
        IF \E k \in 1..Len(LowerCase) : LowerCase[k] = FirstId[i]
        THEN UpperCase[CHOOSE k \in 1..Len(LowerCase) : LowerCase[k] = FirstId[i]]
        ELSE FirstId[i]]

ProductIds ==
    { Str(<<"s","a","m","p","l","e","-","1">>),
      Str(<<"s","a","m","p","l","e","-","9","9">>),
      Str(<<"S","A","M","P","L","E","-","1">>),
      Str(FirstId),
      Str(FirstIdUpper),
      Str(Append(OidPrefix, HexDigits[Len(HexDigits)])) }

\* request bodies of POST /api/products, before validation
PenPayload ==
    [ title |-> Str(<<"P","e","n">>), description |-> None, price |-> 5,
      category |-> Str(<<"O","f","f","i","c","e">>) ]
EmptyTitlePayload ==
    [ title |-> Str(<<>>), description |-> Str(<<"N","o"," ","n","a","m","e",".">>),
      price |-> 1, category |-> Str(<<"O","f","f","i","c","e">>) ]
NegativePricePayload ==
    [ title |-> Str(<<"N","e","o"," ","C","a","p">>), description |-> None, price |-> -1,
      category |-> Str(<<"O","f","f","i","c","e">>) ]
EmptyCategoryPayload ==
    [ title |-> Str(<<"I","n","k">>), description |-> None, price |-> 0,
      category |-> Str(<<>>) ]
NoTitlePayload ==
    [ title |-> None, description |-> None, price |-> 5,
      category |-> Str(<<"O","f","f","i","c","e">>) ]

ProductPayloads ==
    { PenPayload, EmptyTitlePayload, NegativePricePayload, EmptyCategoryPayload,
      NoTitlePayload }

COD == Str(<<"C","O","D">>)

CheckoutPayloads ==
    { [ client_id |-> Str(<<"c","1">>), name |-> Str(<<"A","n","n">>), email |-> None,
        phone |-> None, address |-> Str(<<"1"," ","M","a","i","n">>),
        payment_method |-> pm ] :
      pm \in {COD, Str(<<"C","a","r","d">>), Str(<<"c","o","d">>)} }

CartPayloads ==
    { [ client_id |-> Str(<<"c","1">>), product_id |-> Str(<<"s","a","m","p","l","e","-","1">>),
        qty |-> 1 ] }

WishlistPayloads ==
    { [ client_id |-> Str(<<"c","1">>),
        product_id |-> Str(<<"s","a","m","p","l","e","-","1">>) ] }

---------------------------------------------------------------------------
(* Handlers *)

Init ==
    /\ db \in BOOLEAN
    /\ product = <<>>
    /\ order = <<>>
    /\ SAMPLE_PRODUCTS = SampleCatalog
    /\ req = [op |-> "none"]
    /\ resp = [status |-> 0, src |-> "none", body |-> [message |-> "none"]]
    /\ calls = <<>>

\* GET /
read_root ==
    /\ req' = [op |-> "root"]
    /\ resp' = [status |-> 200, src |-> "none",
                body |-> [message |-> "E-Commerce Backend Running"]]
    /\ calls' = <<>>
    /\ UNCHANGED <<db, product, order, SAMPLE_PRODUCTS>>

\* filt of list_products
Filter(q) ==
    IF Truthy(q)
    THEN [kind |-> "or",
          clauses |-> << [field |-> "title", regex |-> q.v, options |-> "i"],
                         [field |-> "description", regex |-> q.v, options |-> "i"] >>]
    ELSE [kind |-> "all"]

\* NormalizeId without the pop: the raw _id stays in the document
NormalizeId_KeepsRaw(doc) == ("id" :> StrOfOid(doc["_id"])) @@ doc

\* it["id"] = str(it.pop("_id"))
NormalizeId(doc) == ("id" :> StrOfOid(doc["_id"])) @@ DropField(doc, "_id")

\* ListResponse with the except branch returning the items alone
ListResponse_NoNote(q, res) ==
    IF ~res.raised /\ \A i \in 1..Len(res.docs) : "_id" \in DOMAIN res.docs[i]
    THEN [status |-> 200, src |-> "store",
          body |-> [items |-> [i \in 1..Len(res.docs) |-> NormalizeId(res.docs[i])]]]
    ELSE [status |-> 200, src |-> "fallback",
          body |-> [items |-> FallbackItems(SAMPLE_PRODUCTS, q)]]

\* the body of list_products, given what get_documents did; pop("_id") on a
\* document without _id raises KeyError inside the try
ListResponse(q, res) ==
    IF ~res.raised /\ \A i \in 1..Len(res.docs) : "_id" \in DOMAIN res.docs[i]
    THEN [status |-> 200, src |-> "store",
          body |-> [items |-> [i \in 1..Len(res.docs) |-> NormalizeId(res.docs[i])]]]
    ELSE [status |-> 200, src |-> "fallback",
          body |-> [items |-> FallbackItems(SAMPLE_PRODUCTS, q), note |-> NOTE_FALLBACK]]

\* GET /api/products
list_products(limit, q) ==
    \E outcome \in StoreOutcomes :
        /\ req' = [op |-> "list", limit |-> limit, q |-> q, store |-> outcome]
        /\ resp' = ListResponse(q, get_documents(product, Filter(q), limit, outcome))
        /\ calls' = <<>>
        /\ UNCHANGED <<db, product, order, SAMPLE_PRODUCTS>>

\* GetProductResponse with ObjectId() outside the try: a malformed id is an error
GetProductResponse_StrictId(product_id, fail) ==
    LET hit == IF db /\ ObjectIdValid(product_id.v) /\ ~fail
               THEN find_one(product, ObjectId(product_id.v))
               ELSE <<>>
        samples == SelectSeq(SAMPLE_PRODUCTS, LAMBDA p : p["id"] = product_id)
    IN  IF db /\ ~ObjectIdValid(product_id.v)
        THEN [status |-> 500, src |-> "none", body |-> [detail |-> "InvalidId"]]
        ELSE IF Len(hit) > 0
        THEN [status |-> 200, src |-> "store", body |-> NormalizeId(hit[1])]
        ELSE IF Len(samples) > 0
        THEN [status |-> 200, src |-> "fallback", body |-> samples[1]]
        ELSE [status |-> 404, src |-> "none", body |-> [detail |-> "Product not found"]]

\* the body of get_product; ObjectId() of a malformed id and a failing
\* find_one both raise inside the try, which passes
GetProductResponse(product_id, fail) ==
    LET hit == IF db /\ ObjectIdValid(product_id.v) /\ ~fail
               THEN find_one(product, ObjectId(product_id.v))
               ELSE <<>>
        samples == SelectSeq(SAMPLE_PRODUCTS, LAMBDA p : p["id"] = product_id)
    IN  IF Len(hit) > 0
        THEN [status |-> 200, src |-> "store", body |-> NormalizeId(hit[1])]
        ELSE IF Len(samples) > 0
        THEN [status |-> 200, src |-> "fallback", body |-> samples[1]]
        ELSE [status |-> 404, src |-> "none", body |-> [detail |-> "Product not found"]]

\* GET /api/products/{product_id}
get_product(product_id) ==
    \E fail \in BOOLEAN :
        /\ req' = [op |-> "get", product_id |-> product_id, store_fails |-> fail]
        /\ resp' = GetProductResponse(product_id, fail)
        /\ calls' = <<>>
        /\ UNCHANGED <<db, product, order, SAMPLE_PRODUCTS>>

\* what pydantic requires of a ProductCreate body: title and category are
\* strings, price a number, the rest optional
ProductCreateValid(p) == IsStr(p.title) /\ IsStr(p.category) /\ p.price \in Int

\* product.model_dump(): the fields given, and the defaults of the others
model_dump(p) ==
    [ title |-> p.title, description |-> p.description, price |-> p.price,
      category |-> p.category, in_stock |-> TRUE, image |-> None, gallery |-> None,
      specs |-> None ]

\* the answer to a body that is no ProductCreate: the handler is not entered
CreateUnprocessable ==
    [status |-> 422, src |-> "none", body |-> [detail |-> "validation"]]

\* raise HTTPException(status_code=500, detail=str(e))
CreateFailed(detail) == [status |-> 500, src |-> "none", body |-> [detail |-> detail]]

\* return {"id": new_id}
CreateCreated(new_id) == [status |-> 201, src |-> "store", body |-> [id |-> new_id]]

SAMPLE_5 == Str(<<"s","a","m","p","l","e","-","5">>)

\* create_product with a fallback write: when the store raises, the product is
\* appended to SAMPLE_PRODUCTS and its sample id returned
create_product_FallbackWrite(payload) ==
    \E fail \in BOOLEAN :
        LET valid == ProductCreateValid(payload)
            data == model_dump(payload)
            res == create_document(data, fail)
        IN  /\ (valid /\ ~res.raised) => Inserted < MaxDocs
            /\ req' = [op |-> "create", payload |-> payload, store_fails |-> fail]
            /\ calls' = IF valid THEN <<[collection |-> "product", data |-> data]>>
                        ELSE <<>>
            /\ resp' = IF ~valid THEN CreateUnprocessable
                       ELSE IF res.raised THEN CreateCreated(SAMPLE_5)
                       ELSE CreateCreated(res.id)
            /\ product' = IF valid /\ ~res.raised THEN Append(product, res.doc)
                          ELSE product
            /\ SAMPLE_PRODUCTS' = IF valid /\ res.raised
                                  THEN Append(SAMPLE_PRODUCTS, ("id" :> SAMPLE_5) @@ data)
                                  ELSE SAMPLE_PRODUCTS
            /\ UNCHANGED <<db, order>>

\* POST /api/products
create_product(payload) ==
    \E fail \in BOOLEAN :
        LET valid == ProductCreateValid(payload)
            data == model_dump(payload)
            res == create_document(data, fail)
        IN  /\ (valid /\ ~res.raised) => Inserted < MaxDocs
            /\ req' = [op |-> "create", payload |-> payload, store_fails |-> fail]
            /\ calls' = IF valid THEN <<[collection |-> "product", data |-> data]>>
                        ELSE <<>>
            /\ resp' = IF ~valid THEN CreateUnprocessable
                       ELSE IF res.raised THEN CreateFailed(res.detail)
                       ELSE CreateCreated(res.id)
            /\ product' = IF valid /\ ~res.raised THEN Append(product, res.doc)
                          ELSE product
            /\ UNCHANGED <<db, order, SAMPLE_PRODUCTS>>

\* POST /api/cart/add
add_to_cart(payload) ==
    /\ req' = [op |-> "cart_add", payload |-> payload]
    /\ resp' = [status |-> 200, src |-> "none",
                body |-> [ok |-> TRUE, message |-> "Added to cart"]]
    /\ calls' = <<>>
    /\ UNCHANGED <<db, product, order, SAMPLE_PRODUCTS>>

\* POST /api/wishlist/toggle
toggle_wishlist(payload) ==
    /\ req' = [op |-> "wishlist_toggle", payload |-> payload]
    /\ resp' = [status |-> 200, src |-> "none",
                body |-> [ok |-> TRUE, message |-> "Wishlist updated"]]
    /\ calls' = <<>>
    /\ UNCHANGED <<db, product, order, SAMPLE_PRODUCTS>>

\* Order(client_id=..., items=[], total=0.0, payment_method="COD", ...), with
\* the default status of schemas.Order
OrderOf(payload) ==
    [ client_id |-> payload.client_id, items |-> <<>>, total |-> 0,
      payment_method |-> COD, status |-> Str(<<"p","l","a","c","e","d">>),
      name |-> payload.name, email |-> payload.email, phone |-> payload.phone,
      address |-> payload.address ]

SAMPLE_ORDER == Str(<<"s","a","m","p","l","e","-","o","r","d","e","r">>)

\* raise HTTPException(status_code=400, ...)
CheckoutRejected ==
    [status |-> 400, src |-> "none",
     body |-> [detail |-> "Only Cash on Delivery is supported"]]

\* the return of the try branch
CheckoutPlaced(order_id) ==
    [status |-> 201, src |-> "store",
     body |-> [ok |-> TRUE, order_id |-> order_id, status |-> "placed",
               payment |-> "COD"]]

\* the return of the except branch
CheckoutFallback ==
    [status |-> 201, src |-> "fallback",
     body |-> [ok |-> TRUE, order_id |-> SAMPLE_ORDER, status |-> "placed",
               payment |-> "COD", note |-> NOTE_FALLBACK]]

\* checkout without the payment_method test
checkout_AnyMethod(payload) ==
    \E fail \in BOOLEAN :
        LET res == create_document(OrderOf(payload), fail)
        IN  /\ ~res.raised => Inserted < MaxDocs
            /\ req' = [op |-> "checkout", payload |-> payload, store_fails |-> fail]
            /\ calls' = <<[collection |-> "order", data |-> OrderOf(payload)]>>
            /\ resp' = IF res.raised THEN CheckoutFallback ELSE CheckoutPlaced(res.id)
            /\ order' = IF ~res.raised THEN Append(order, res.doc) ELSE order
            /\ UNCHANGED <<db, product, SAMPLE_PRODUCTS>>

\* checkout without the except branch: a failing create_document is a 500
checkout_Propagates(payload) ==
    \E fail \in BOOLEAN :
        LET cod == payload.payment_method = COD
            res == create_document(OrderOf(payload), fail)
        IN  /\ (cod /\ ~res.raised) => Inserted < MaxDocs
            /\ req' = [op |-> "checkout", payload |-> payload, store_fails |-> fail]
            /\ calls' = IF cod
                        THEN <<[collection |-> "order", data |-> OrderOf(payload)]>>
                        ELSE <<>>
            /\ resp' = IF ~cod THEN CheckoutRejected
                       ELSE IF res.raised
                       THEN [status |-> 500, src |-> "none",
                             body |-> [detail |-> res.detail]]
                       ELSE CheckoutPlaced(res.id)
            /\ order' = IF cod /\ ~res.raised THEN Append(order, res.doc) ELSE order
            /\ UNCHANGED <<db, product, SAMPLE_PRODUCTS>>

\* POST /api/checkout
checkout(payload) ==
    \E fail \in BOOLEAN :
        LET cod == payload.payment_method = COD
            res == create_document(OrderOf(payload), fail)
        IN  /\ (cod /\ ~res.raised) => Inserted < MaxDocs
            /\ req' = [op |-> "checkout", payload |-> payload, store_fails |-> fail]
            /\ calls' = IF cod
                        THEN <<[collection |-> "order", data |-> OrderOf(payload)]>>
                        ELSE <<>>
            /\ resp' = IF ~cod THEN CheckoutRejected
                       ELSE IF res.raised THEN CheckoutFallback
                       ELSE CheckoutPlaced(res.id)
            /\ order' = IF cod /\ ~res.raised THEN Append(order, res.doc) ELSE order
            /\ UNCHANGED <<db, product, SAMPLE_PRODUCTS>>

Next ==
    \/ read_root
    \/ \E limit \in Limits, q \in Queries : list_products(limit, q)
    \/ \E product_id \in ProductIds : get_product(product_id)
    \/ \E payload \in ProductPayloads : create_product(payload)
    \/ \E payload \in CartPayloads : add_to_cart(payload)
    \/ \E payload \in WishlistPayloads : toggle_wishlist(payload)
    \/ \E payload \in CheckoutPayloads : checkout(payload)

Spec == Init /\ [][Next]_vars

---------------------------------------------------------------------------
(* Properties *)

Range(s) == {s[i] : i \in 1..Len(s)}

Wallet == Str(<<"w","a","l","l","e","t">>)
Sample99 == Str(<<"s","a","m","p","l","e","-","9","9">>)

\* case-insensitive containment, stated by folding both texts to upper case
UpperChar(c) ==
    IF \E k \in 1..Len(LowerCase) : LowerCase[k] = c
    THEN UpperCase[CHOOSE k \in 1..Len(LowerCase) : LowerCase[k] = c]
    ELSE c

ContainsIgnoringCase(text, q) ==
    \E k \in 0..(Len(text) - Len(q)) :
        \A j \in 1..Len(q) : UpperChar(text[k + j]) = UpperChar(q[j])

\* the entries of the fixed catalog whose title or description contains q
CatalogSubset(q) ==
    SelectSeq(SampleCatalog,
              LAMBDA s : \/ ContainsIgnoringCase(s.title.v, q.v)
                         \/ ContainsIgnoringCase(s.description.v, q.v))

HasNote(body) == "note" \in DOMAIN body /\ body.note = NOTE_FALLBACK

\* C1: a GET /api/products response carries note = "database_unavailable_fallback"
\* if and only if its items were taken from the fallback catalog: a response
\* built from store documents (every item is a stored document under its
\* normalised id) has no note field, one built from the catalog always has it.
C1_NoteIffFallback ==
    req.op = "list" =>
        /\ resp.src \in {"store", "fallback"}
        /\ HasNote(resp.body) <=> resp.src = "fallback"
        /\ "note" \in DOMAIN resp.body <=> resp.src = "fallback"
        /\ resp.src = "fallback" => Range(resp.body.items) \subseteq Range(SampleCatalog)
        /\ resp.src = "store" =>
              /\ db /\ req.store # "raises"
              /\ \A i \in 1..Len(resp.body.items) :
                    \E k \in 1..Len(product) :
                        resp.body.items[i]["id"] = StrOfOid(product[k]["_id"])

\* C1 witness: a store that answers with a document without _id, and the
\* listing served from the catalog with the note
C1_Witness ==
    /\ req.op = "list" /\ db /\ req.store = "malformed" /\ Len(product) > 0
    /\ resp.src = "fallback" /\ HasNote(resp.body)

\* C2: served from the fallback catalog, list_products returns exactly the
\* entries of the fixed four-entry catalog whose title or description contains
\* q ignoring case, in declaration order; all four when q is absent or empty;
\* and for q = "wallet" exactly sample-2.
C2_FallbackFilterExact ==
    (req.op = "list" /\ resp.src = "fallback") =>
        /\ Len(SampleCatalog) = 4
        /\ Truthy(req.q) => resp.body.items = CatalogSubset(req.q)
        /\ ~Truthy(req.q) => resp.body.items = SampleCatalog
        /\ req.q = Wallet => resp.body.items = <<Sample2>>

\* C2 witness: a fallback listing for an upper-case filter text that selects
\* one entry through its title and description
C2_Witness ==
    /\ req.op = "list" /\ resp.src = "fallback"
    /\ req.q = Str(<<"W","A","L","L","E","T">>)
    /\ resp.body.items = <<Sample2>>

\* C3: the store path and the fallback path apply the same filter: when the
\* listing is served from the store with a filter text q and the limit does not
\* cut it, a stored product is listed if and only if the fallback predicate
\* (lower-cased q is a substring of its lower-cased title or description) holds
\* of it.
C3_SameFilterOnBothPaths ==
    (req.op = "list" /\ resp.src = "store" /\ Truthy(req.q)
        /\ Len(product) <= req.limit) =>
        \A k \in 1..Len(product) :
            (\E i \in 1..Len(resp.body.items) :
                resp.body.items[i]["id"] = StrOfOid(product[k]["_id"]))
            <=> FallbackMatch(req.q, product[k])

StoreYields(product_id, fail) ==
    /\ db /\ ~fail /\ ObjectIdValid(product_id.v)
    /\ \E k \in 1..Len(product) : product[k]["_id"] = ObjectId(product_id.v)

CatalogYields(product_id) ==
    \E i \in 1..Len(SampleCatalog) : SampleCatalog[i].id = product_id

\* C4: get_product answers 200 or 404 and nothing else; an id that is no store
\* identifier, an absent store handle, a raising store or a missing document
\* fall through to the catalog, matched by equality on id; the answer is 404
\* if and only if neither the store nor the catalog has a match.
C4_GetNeverErrors ==
    req.op = "get" =>
        LET pid == req.product_id
            inStore == StoreYields(pid, req.store_fails)
            inCatalog == CatalogYields(pid)
        IN  /\ resp.status \in {200, 404}
            /\ resp.status = 404 <=> (~inStore /\ ~inCatalog)
            /\ inStore => resp.src = "store" /\ resp.body["id"] = Str(lower(pid.v))
            /\ (~inStore /\ inCatalog) =>
                  /\ resp.src = "fallback"
                  /\ resp.body \in Range(SampleCatalog)
                  /\ resp.body["id"] = pid

\* C4 witness: with a store handle present, "sample-99" is no ObjectId and no
\* catalog id, and the answer is the 404
C4_Witness ==
    /\ req.op = "get" /\ db /\ req.product_id = Sample99
    /\ ~ObjectIdValid(req.product_id.v)
    /\ resp.status = 404

\* C5: a checkout whose payment_method is not "COD" is answered 400, makes no
\* create_document call and returns no order_id.
C5_NonCodRejected ==
    (req.op = "checkout" /\ req.payload.payment_method # COD) =>
        /\ resp.status = 400
        /\ calls = <<>>
        /\ "order_id" \notin DOMAIN resp.body

\* C5 witness: a "cod" checkout against a healthy store, rejected
C5_Witness ==
    /\ req.op = "checkout" /\ db /\ ~req.store_fails
    /\ req.payload.payment_method = Str(<<"c","o","d">>)
    /\ resp.status = 400

InvalidProduct(p) ==
    \/ IsStr(p.title) /\ Len(p.title.v) = 0
    \/ IsStr(p.category) /\ Len(p.category.v) = 0
    \/ p.price < 0

\* C6: create_product validates before delegating: for an input with an empty
\* title, an empty category or a price below 0 it fails without calling
\* create_document, and no such product is ever in the store.
C6_CreateValidatesInput ==
    /\ (req.op = "create" /\ InvalidProduct(req.payload)) =>
          (calls = <<>> /\ resp.status \notin {200, 201})
    /\ \A k \in 1..Len(product) : ~InvalidProduct(product[k])

\* C7: the fallback catalog is read-only: after any sequence of requests
\* SAMPLE_PRODUCTS holds its four entries unchanged; a create_product whose
\* store write fails answers 500 without an id; and whatever a fallback listing
\* or lookup returns is one of the four entries.
C7_CatalogReadOnly ==
    /\ SAMPLE_PRODUCTS = SampleCatalog
    /\ Len(SAMPLE_PRODUCTS) = 4
    /\ (req.op = "create" /\ ProductCreateValid(req.payload)
            /\ (~db \/ req.store_fails)) =>
          (resp.status = 500 /\ "id" \notin DOMAIN resp.body)
    /\ (req.op = "list" /\ resp.src = "fallback") =>
          Range(resp.body.items) \subseteq Range(SampleCatalog)
    /\ (req.op = "get" /\ resp.src = "fallback") => resp.body \in Range(SampleCatalog)

\* C7 witness: a valid product posted with no store handle, answered 500
C7_Witness ==
    /\ req.op = "create" /\ ~db /\ req.payload = PenPayload
    /\ resp.status = 500
    /\ SAMPLE_PRODUCTS = SampleCatalog

\* C8: a "COD" checkout is always answered success-shaped (ok, "placed",
\* "COD"); the order handed to the store has no items and total 0; when the
\* write fails the order_id is "sample-order" with the fallback note, when it
\* succeeds the order_id is the one the store assigned and there is no note.
C8_CheckoutMasksStoreFailure ==
    (req.op = "checkout" /\ req.payload.payment_method = COD) =>
        /\ resp.status = 201
        /\ resp.body.ok /\ resp.body.status = "placed" /\ resp.body.payment = "COD"
        /\ Len(calls) = 1 /\ calls[1].collection = "order"
        /\ calls[1].data.items = <<>> /\ calls[1].data.total = 0
        /\ (~db \/ req.store_fails) =>
              resp.body.order_id = SAMPLE_ORDER /\ HasNote(resp.body)
        /\ (db /\ ~req.store_fails) =>
              /\ Len(order) > 0
              /\ resp.body.order_id = StrOfOid(order[Len(order)]["_id"])
              /\ order[Len(order)]["items"] = <<>>
              /\ "note" \notin DOMAIN resp.body

\* C8 witness: a "COD" checkout whose write the store rejects, acknowledged
\* with the placeholder id
C8_Witness ==
    /\ req.op = "checkout" /\ db /\ req.store_fails
    /\ req.payload.payment_method = COD
    /\ resp.body.order_id = SAMPLE_ORDER /\ resp.body.ok

HasStringId(p) == "id" \in DOMAIN p /\ IsStr(p["id"])

\* p is a stored document with _id replaced by id = str(_id)
FromStore(p) ==
    /\ "_id" \notin DOMAIN p
    /\ \E k \in 1..Len(product) :
          /\ p["id"] = Str(product[k]["_id"].v)
          /\ DropField(p, "id") = DropField(product[k], "_id")

\* C9: every product list_products or get_product returns carries a string
\* field id; one that came from the store is the stored document with id the
\* string form of its _id and without the raw _id field.
C9_EveryProductHasStringId ==
    /\ req.op = "list" =>
          \A i \in 1..Len(resp.body.items) :
              /\ HasStringId(resp.body.items[i])
              /\ resp.src = "store" => FromStore(resp.body.items[i])
    /\ (req.op = "get" /\ resp.status = 200) =>
          /\ HasStringId(resp.body)
          /\ resp.src = "store" => FromStore(resp.body)

\* C9 witness: a listing served from the store that returns a product
C9_Witness ==
    /\ req.op = "list" /\ resp.src = "store"
    /\ Len(resp.body.items) > 0
    /\ resp.body.items[1]["id"] = Str(FirstId)

\* C10: list_products returns at most limit items, from the store and from
\* the fallback catalog alike.
C10_LimitHonoured ==
    req.op = "list" => Len(resp.body.items) <= req.limit

===========================================================================
